---- MODULE Spec2Model ----
(***************************************************************************)
(* Model of suite2p/registration/main.py: register_binary, the orchestrator *)
(* of one registration session.  One configuration record (ops) is run      *)
(* through register_binary up to MaxRuns times; every run walks the body of *)
(* the function statement group by statement group (pc).                    *)
(*                                                                          *)
(* Images are reduced to one pixel, kept as exact fractions <<num, den>>.   *)
(* Frame i of a stream holds a fixed pixel value and is measured with a     *)
(* fixed shift, so sums, means and histories are decided by the arithmetic  *)
(* of the code and not by the data.                                         *)
(***************************************************************************)
EXTENDS Integers, Sequences, FiniteSets, TLC

VARIABLES
    ops,        \* the configuration record (dict) handed to register_binary
    opsKeys,    \* optional keys present in ops: "bidiphase", "yoff", "yoff1", "ops_path", "data_path"
    files,      \* file system: kind and byte size of raw_file, byte size of reg_file
    badfile,    \* bad_frames.npy under data_path[0] as found when it is looked up
    call,       \* the caller's arguments: raw, refImg (given or not), ops passed as a list
    raw,        \* local variable raw of the executing call
    refImg,     \* local variable refImg of the executing call
    paths,      \* result of the stream selection: stream aligned, stream used for the reference
    gen,        \* state of the running generator: k, nfr, sum_img, mean_img, sum/count of the alternate pass
    offsets,    \* displacement arrays yielded so far by register_binary_to_ref
    pc,         \* position inside register_binary
    err,        \* which exception ended the run ("" when none)
    events,     \* collaborators invoked by the current run
    tiffs,      \* preview files written by the current run: <<ichan, k>>
    entry,      \* what the record held when the current run was entered: keys, history, bidiphase
    runs        \* number of completed runs on this record

vars == <<ops, opsKeys, files, badfile, call, raw, refImg, paths, gen, offsets,
          pc, err, events, tiffs, entry, runs>>

----------------------------------------------------------------------------
(* Bounds and program constants *)

MaxRuns == 2

MinFrames == 50

\* frame shapes <<Ly, Lx>>
FrameShapes == {<<2, 1>>}
\* reg_file / raw_file contents: <<whole frames, trailing bytes of an incomplete frame>>
RegFiles == {<<49, 3>>, <<50, 0>>}
RawFiles == {<<49, 0>>, <<51, 1>>}
\* byte size the file system reports for a directory
DirSizes == {4096}
\* frames in both files when an explicit cap is set
CappedFileFrames == 52
FramesIncludeCaps == {49, 51}
PriorFrameCounts == {48, 52}
BatchSizes == {20, 50}
\* <<nchannels, functional_chan, align_by_chan>>
ChannelConfigs == {<<1, 1, 1>>, <<2, 1, 1>>, <<2, 1, 2>>}
\* <<reg_tif, reg_tif_chan2>>
TiffConfigs == {<<FALSE, FALSE>>, <<TRUE, TRUE>>}
\* contents of bad_frames.npy: 0-based frame indices, relative to nframes n
BadFrameFiles(n) == {<<3, 0, 3, n - 1>>, <<0, n>>}
\* optional keys a record starts with
OptionalKeySets == {{}, {"bidiphase"}, {"ops_path", "data_path"},
                    {"bidiphase", "ops_path", "data_path"}}
\* block grid (ny, nx) produced by nonrigid.make_blocks
BlockGrid == <<1, 2>>
\* bidiphase stored in a record that already has one
StoredBidiphase == 2

----------------------------------------------------------------------------
(* Arithmetic helpers *)

Min(a, b) == IF a < b THEN a ELSE b

Abs(a) == IF a < 0 THEN -a ELSE a

FracEq(a, b) == a[1] * b[2] = b[1] * a[2]

\* image / scalar
FracDiv(a, n) == <<a[1], a[2] * n>>

Zeros(n) == [i \in 1..n |-> 0]

Zeros2(n, nb) == [i \in 1..n |-> [b \in 1..nb |-> 0]]

----------------------------------------------------------------------------
(* Data of the streams: pixel value of frame i (0-based) and the shift the   *)
(* correlation measures for it in a given pass.                              *)

AlignPixel(stream, i) == IF stream = "raw" THEN (i % 3) + 1 ELSE ((i * i) % 4)

AltPixel(i) == (i % 4) + ((i \div 25) % 2)

\* c = 1 (yoff), 2 (xoff), 3 (corrXY)
FrameShift(run, i, c) == ((i + 2 * run + c) % 5) - 2

BlockShift(run, i, c, b) == ((i + run + c + 2 * b) % 3) - 1

RECURSIVE SumAlign(_, _, _)
\* sum of the aligned stream's registered frames lo..hi-1
SumAlign(stream, lo, hi) ==
    IF lo >= hi THEN 0 ELSE AlignPixel(stream, lo) + SumAlign(stream, lo + 1, hi)

RECURSIVE SumAlt(_, _)
SumAlt(lo, hi) == IF lo >= hi THEN 0 ELSE AltPixel(lo) + SumAlt(lo + 1, hi)

----------------------------------------------------------------------------
(* File system *)

BytesPerFrame(o) == 2 * o.Ly * o.Lx

\* os.path.exists / os.path.isfile / os.path.getsize
PathExists(f) == f.rawKind \in {"file", "dir"}

PathIsFile(f) == f.rawKind = "file"

GetSize(f, name) == IF name = "raw" THEN f.rawBytes ELSE f.regBytes

\* whole frames a stream can deliver
StreamFrames(f, o, stream) == GetSize(f, stream) \div BytesPerFrame(o)

----------------------------------------------------------------------------
(* Initial states: a fresh record that no run has touched *)

NoHistory == [yoff |-> <<>>, xoff |-> <<>>, corrXY |-> <<>>,
              yoff1 |-> <<>>, xoff1 |-> <<>>, corrXY1 |-> <<>>]

NoGen == [k |-> 0, nfr |-> 0, sum_img |-> 0, mean_img |-> <<0, 1>>,
          altSum |-> 0, altCnt |-> 0]

NoPaths == [align |-> "none", ref |-> "none"]

Record(shape, nframes, cap, keep, nonrig, bs, ch, tf) ==
    [Ly |-> shape[1], Lx |-> shape[2], nframes |-> nframes, frames_include |-> cap,
     keep_movie_raw |-> keep, nonrigid |-> nonrig, nblocks |-> <<1, 1>>,
     batch_size |-> bs, nchannels |-> ch[1], functional_chan |-> ch[2],
     align_by_chan |-> ch[3], reg_tif |-> tf[1], reg_tif_chan2 |-> tf[2],
     bidiphase |-> StoredBidiphase, bidi_corrected |-> FALSE, refImg |-> "none",
     hist |-> NoHistory, badframes |-> <<>>, means |-> <<>>, crop |-> <<>>]

FileSystems(fb) ==
    { [rawKind |-> "absent", rawBytes |-> 0, regBytes |-> g[1] * fb + g[2]] : g \in RegFiles }
    \cup { [rawKind |-> "file", rawBytes |-> r[1] * fb + r[2], regBytes |-> g[1] * fb + g[2]] :
             r \in RawFiles, g \in RegFiles }
    \cup { [rawKind |-> "dir", rawBytes |-> d, regBytes |-> g[1] * fb + g[2]] :
             d \in DirSizes, g \in RegFiles }

CappedFileSystem(fb) ==
    [rawKind |-> "file", rawBytes |-> CappedFileFrames * fb, regBytes |-> CappedFileFrames * fb]

Init ==
    /\ \E shape \in FrameShapes, keep \in BOOLEAN, nonrig \in BOOLEAN, bs \in BatchSizes,
          ch \in ChannelConfigs, tf \in TiffConfigs :
         \/ /\ ops = Record(shape, 0, -1, keep, nonrig, bs, ch, tf)
            /\ files \in FileSystems(2 * shape[1] * shape[2])
         \/ /\ \E n \in PriorFrameCounts, cap \in FramesIncludeCaps :
                  ops = Record(shape, n, cap, keep, nonrig, bs, ch, tf)
            /\ files = CappedFileSystem(2 * shape[1] * shape[2])
    /\ opsKeys \in OptionalKeySets
    /\ badfile = [seen |-> FALSE, exists |-> FALSE, idx |-> <<>>]
    /\ call = [raw |-> TRUE, refImg |-> FALSE, asList |-> FALSE]
    /\ raw = TRUE
    /\ refImg = "none"
    /\ paths = NoPaths
    /\ gen = NoGen
    /\ offsets = NoHistory
    /\ pc = "idle"
    /\ err = ""
    /\ events = {}
    /\ tiffs = {}
    /\ entry = [keys |-> opsKeys, hist |-> ops.hist, bidiphase |-> ops.bidiphase]
    /\ runs = 0

Raise(kind) ==
    /\ pc' = "error"
    /\ err' = kind

----------------------------------------------------------------------------
(* register_binary, entry: the list form recurses with default arguments *)

\* a later call on the same record repeats the form of the first and chooses raw anew
CallForms(n, c) ==
    IF n = 0 THEN [raw : BOOLEAN, refImg : BOOLEAN, asList : {FALSE}]
                  \cup [raw : BOOLEAN, refImg : {FALSE}, asList : {TRUE}]
    ELSE {[c EXCEPT !.raw = r] : r \in BOOLEAN}

Call ==
    /\ pc \in {"idle", "done"}
    /\ runs < MaxRuns
    /\ call' \in CallForms(runs, call)
    /\ raw' = IF call'.asList THEN TRUE ELSE call'.raw
    /\ refImg' = IF call'.asList THEN "none" ELSE IF call'.refImg THEN "user" ELSE "none"
    /\ entry' = [keys |-> opsKeys, hist |-> ops.hist, bidiphase |-> ops.bidiphase]
    /\ paths' = NoPaths
    /\ gen' = NoGen
    /\ offsets' = NoHistory
    /\ events' = {}
    /\ tiffs' = {}
    /\ err' = ""
    /\ pc' = "resolve"
    /\ UNCHANGED <<ops, opsKeys, files, badfile, runs>>

(* make blocks, resolve the frame count, check it *)

MakeBlocks(o) == IF o.nonrigid THEN [o EXCEPT !.nblocks = BlockGrid] ELSE o

ResolvedFrames(o, f) ==
    IF o.frames_include # -1
    THEN Min(o.nframes, o.frames_include)
    ELSE GetSize(f, IF o.keep_movie_raw /\ PathExists(f) THEN "raw" ELSE "reg")
             \div BytesPerFrame(o)

\* variant: the check lets a count one below the minimum through
TooFewFrames_OffByOne(n) == n < MinFrames - 1

TooFewFrames(n) == n < MinFrames

ResolveFrames ==
    /\ pc = "resolve"
    /\ LET o == MakeBlocks(ops)
           n == ResolvedFrames(o, files)
       IN /\ ops' = [o EXCEPT !.nframes = n]
          /\ IF TooFewFrames(n) THEN Raise("config")
             ELSE pc' = "paths" /\ err' = err
    /\ UNCHANGED <<opsKeys, files, badfile, call, raw, refImg, paths, gen, offsets,
                   events, tiffs, entry, runs>>

(* get binary file paths *)

UseRaw(r, o, f) == IF r THEN o.keep_movie_raw /\ PathIsFile(f) ELSE r

\* bin_paths: the aligned stream is the raw stream exactly when raw is set
BinPaths(r) == IF r THEN "raw" ELSE "reg"

SelectStreams ==
    /\ pc = "paths"
    /\ raw' = UseRaw(raw, ops, files)
    /\ paths' = [paths EXCEPT !.align = BinPaths(raw')]
    /\ pc' = "reference"
    /\ UNCHANGED <<ops, opsKeys, files, badfile, call, refImg, gen, offsets, err,
                   events, tiffs, entry, runs>>

(* compute reference image *)

\* compute_reference_image: the reference built from a stream and its scan phase
BuiltReference(stream) == IF stream = "raw" THEN "built_raw" ELSE "built_reg"

ScanPhase(stream) == IF stream = "raw" THEN 1 ELSE 0

ReferenceStream(r) == IF r THEN "raw" ELSE "reg"

Reference ==
    /\ pc = "reference"
    /\ IF refImg # "none"
       THEN /\ ops' = [ops EXCEPT !.refImg = refImg]
            /\ UNCHANGED <<refImg, opsKeys, paths, events>>
       ELSE LET s == ReferenceStream(raw)
            IN /\ refImg' = BuiltReference(s)
               /\ ops' = [ops EXCEPT !.bidiphase = ScanPhase(s), !.refImg = refImg']
               /\ opsKeys' = opsKeys \cup {"bidiphase"}
               /\ paths' = [paths EXCEPT !.ref = s]
               /\ events' = events \cup {"reference"}
    /\ pc' = "masks"
    /\ UNCHANGED <<files, badfile, call, raw, gen, offsets, err, tiffs, entry, runs>>

(* prepare_refAndMasks, and the call that creates the registration generator *)

PrepareMasks ==
    /\ pc = "masks"
    /\ events' = events \cup {"masks"}
    /\ gen' = NoGen
    /\ offsets' = NoHistory
    /\ pc' = "register"
    /\ UNCHANGED <<ops, opsKeys, files, badfile, call, raw, refImg, paths, err,
                   tiffs, entry, runs>>

(* register_binary_to_ref: one batch of the aligned stream per iteration *)

BatchLen(o, done) == Min(o.batch_size, o.nframes - done)

NumBlocks(o) == o.nblocks[1] * o.nblocks[2]

\* the displacement arrays with the shifts of frames lo..hi-1 appended, in frame order
ExtendOffsets(off, run, lo, hi, o) ==
    LET rigid(c) == [i \in 1..(hi - lo) |-> FrameShift(run, lo + i - 1, c)]
        block(c) == [i \in 1..(hi - lo) |->
                        [b \in 1..NumBlocks(o) |-> BlockShift(run, lo + i - 1, c, b)]]
    IN [yoff |-> off.yoff \o rigid(1), xoff |-> off.xoff \o rigid(2),
        corrXY |-> off.corrXY \o rigid(3),
        yoff1 |-> IF o.nonrigid THEN off.yoff1 \o block(1) ELSE off.yoff1,
        xoff1 |-> IF o.nonrigid THEN off.xoff1 \o block(2) ELSE off.xoff1,
        corrXY1 |-> IF o.nonrigid THEN off.corrXY1 \o block(3) ELSE off.corrXY1]

RegisterBatch ==
    /\ pc = "register"
    /\ LET lo == gen.nfr
           hi == lo + BatchLen(ops, lo)
       IN IF hi > StreamFrames(files, ops, paths.align)
          THEN /\ Raise("data")
               /\ UNCHANGED <<gen, offsets, events, tiffs>>
          ELSE /\ offsets' = ExtendOffsets(offsets, runs, lo, hi, ops)
               /\ gen' = [gen EXCEPT !.k = @ + 1, !.nfr = hi,
                                     !.sum_img = @ + SumAlign(paths.align, lo, hi)]
               /\ events' = events \cup {"register"}
               /\ tiffs' = IF ops.reg_tif THEN tiffs \cup {<<TRUE, gen.k>>} ELSE tiffs
               /\ pc' = IF hi = ops.nframes THEN "mean" ELSE "register"
               /\ err' = err
    /\ UNCHANGED <<ops, opsKeys, files, badfile, call, raw, refImg, paths, entry, runs>>

(* mean image across all frames *)

SetKey(m, k, v) == [x \in (DOMAIN m) \cup {k} |-> IF x = k THEN v ELSE m[x]]

MeanImgKey(o) ==
    IF o.nchannels = 1 \/ o.functional_chan = o.align_by_chan
    THEN "meanImg" ELSE "meanImage_chan2"

MeanImage ==
    /\ pc = "mean"
    /\ ops' = [ops EXCEPT !.means = SetKey(@, MeanImgKey(ops), <<gen.sum_img, ops.nframes>>)]
    /\ pc' = IF ops.nchannels > 1 THEN "shiftcall" ELSE "history"
    /\ UNCHANGED <<opsKeys, files, badfile, call, raw, refImg, paths, gen, offsets, err,
                   events, tiffs, entry, runs>>

(* second channel: the call of apply_shifts_to_binary reads ops['bidiphase'] *)

ReplicateCall ==
    /\ pc = "shiftcall"
    /\ IF "bidiphase" \notin opsKeys
       THEN Raise("KeyError") /\ gen' = gen
       ELSE /\ gen' = [gen EXCEPT !.k = 0, !.altSum = 0, !.altCnt = 0, !.mean_img = <<0, 1>>]
            /\ pc' = "replicate"
            /\ err' = err
    /\ UNCHANGED <<ops, opsKeys, files, badfile, call, raw, refImg, paths, offsets,
                   events, tiffs, entry, runs>>

\* apply_shifts_to_binary yields the running mean so far of the alternate stream
RunningMean(sum, cnt) == <<sum, cnt>>

ReplicateBatch ==
    /\ pc = "replicate"
    /\ LET lo == gen.altCnt
           hi == lo + BatchLen(ops, lo)
           sum == gen.altSum + SumAlt(lo, hi)
       IN /\ gen' = [gen EXCEPT !.k = @ + 1, !.altSum = sum, !.altCnt = hi,
                                !.mean_img = RunningMean(sum, hi)]
          /\ tiffs' = IF ops.reg_tif_chan2 THEN tiffs \cup {<<FALSE, gen.k>>} ELSE tiffs
          /\ pc' = IF hi = ops.nframes THEN "altmean" ELSE "replicate"
    /\ events' = events \cup {"replicate"}
    /\ UNCHANGED <<ops, opsKeys, files, badfile, call, raw, refImg, paths, offsets, err,
                   entry, runs>>

AltMeanImgKey(o) ==
    IF o.functional_chan # o.align_by_chan THEN "meanImag" ELSE "meanImg_chan2"

\* mean_img / (k + 1), k the index of the last batch
AltMean(mean_img, batches) == FracDiv(mean_img, (batches - 1) + 1)

AltMeanImage ==
    /\ pc = "altmean"
    /\ ops' = [ops EXCEPT !.means = SetKey(@, AltMeanImgKey(ops), AltMean(gen.mean_img, gen.k))]
    /\ pc' = "history"
    /\ UNCHANGED <<opsKeys, files, badfile, call, raw, refImg, paths, gen, offsets, err,
                   events, tiffs, entry, runs>>

(* offset history: create the arrays when absent, then add this run's offsets *)

HistoryKeys(keys, o) ==
    IF "yoff" \in keys THEN keys
    ELSE keys \cup {"yoff"} \cup (IF o.nonrigid THEN {"yoff1"} ELSE {})

InitHistory(keys, o) ==
    IF "yoff" \in keys THEN o.hist
    ELSE [yoff |-> Zeros(o.nframes), xoff |-> Zeros(o.nframes), corrXY |-> Zeros(o.nframes),
          yoff1 |-> IF o.nonrigid THEN Zeros2(o.nframes, NumBlocks(o)) ELSE o.hist.yoff1,
          xoff1 |-> IF o.nonrigid THEN Zeros2(o.nframes, NumBlocks(o)) ELSE o.hist.xoff1,
          corrXY1 |-> IF o.nonrigid THEN Zeros2(o.nframes, NumBlocks(o)) ELSE o.hist.corrXY1]

\* numpy in-place add of equal-shaped arrays
AddInPlace(a, b) == [i \in 1..Len(a) |-> a[i] + b[i]]

AddInPlace2(a, b) == [i \in 1..Len(a) |-> [j \in 1..Len(a[i]) |-> a[i][j] + b[i][j]]]

SameShape(h, off, o) ==
    /\ Len(h.yoff) = Len(off.yoff)
    /\ o.nonrigid => /\ Len(h.yoff1) = Len(off.yoff1)
                     /\ \A i \in 1..Len(h.yoff1) : Len(h.yoff1[i]) = Len(off.yoff1[i])

\* variant: the run's offsets replace the stored history instead of being added to it
AccumulateOffsets_Assign(h, off, o) ==
    [yoff |-> off.yoff, xoff |-> off.xoff, corrXY |-> off.corrXY,
     yoff1 |-> IF o.nonrigid THEN off.yoff1 ELSE h.yoff1,
     xoff1 |-> IF o.nonrigid THEN off.xoff1 ELSE h.xoff1,
     corrXY1 |-> IF o.nonrigid THEN off.corrXY1 ELSE h.corrXY1]

AccumulateOffsets(h, off, o) ==
    [yoff |-> AddInPlace(h.yoff, off.yoff), xoff |-> AddInPlace(h.xoff, off.xoff),
     corrXY |-> AddInPlace(h.corrXY, off.corrXY),
     yoff1 |-> IF o.nonrigid THEN AddInPlace2(h.yoff1, off.yoff1) ELSE h.yoff1,
     xoff1 |-> IF o.nonrigid THEN AddInPlace2(h.xoff1, off.xoff1) ELSE h.xoff1,
     corrXY1 |-> IF o.nonrigid THEN AddInPlace2(h.corrXY1, off.corrXY1) ELSE h.corrXY1]

History ==
    /\ pc = "history"
    /\ opsKeys' = HistoryKeys(opsKeys, ops)
    /\ LET h == InitHistory(opsKeys, ops)
       IN IF ops.nonrigid /\ "yoff1" \notin opsKeys'
          THEN ops' = [ops EXCEPT !.hist = h] /\ Raise("KeyError")
          ELSE IF ~SameShape(h, offsets, ops)
          THEN ops' = [ops EXCEPT !.hist = h] /\ Raise("ValueError")
          ELSE /\ ops' = [ops EXCEPT !.hist = AccumulateOffsets(h, offsets, ops)]
               /\ pc' = "badframes"
               /\ err' = err
    /\ UNCHANGED <<files, badfile, call, raw, refImg, paths, gen, offsets,
                   events, tiffs, entry, runs>>

(* bad frames: all-false unless bad_frames.npy exists under data_path[0] *)

NoBadFrames(n) == [i \in 1..n |-> FALSE]

\* variant: the listed indices are taken as 1-based
MarkBad_OneBased(mask, idx) == [i \in 1..Len(mask) |-> mask[i] \/ \E j \in 1..Len(idx) : idx[j] = i]

\* mask[idx] = True for an array idx of 0-based indices
MarkBad(mask, idx) == [i \in 1..Len(mask) |-> mask[i] \/ \E j \in 1..Len(idx) : idx[j] = i - 1]

InRange(idx, n) == \A j \in 1..Len(idx) : idx[j] < n

\* the file as the lookup finds it; what was found once is found again
BadFileLookup(bf, n) ==
    IF bf.seen THEN {bf}
    ELSE {[seen |-> TRUE, exists |-> FALSE, idx |-> <<>>]}
         \cup {[seen |-> TRUE, exists |-> TRUE, idx |-> idx] : idx \in BadFrameFiles(n)}

BadFrames ==
    /\ pc = "badframes"
    /\ LET zero == NoBadFrames(ops.nframes)
       IN IF "data_path" \notin opsKeys
          THEN /\ ops' = [ops EXCEPT !.badframes = zero]
               /\ pc' = "crop"
               /\ UNCHANGED <<badfile, err>>
          ELSE /\ badfile' \in BadFileLookup(badfile, ops.nframes)
               /\ IF ~badfile'.exists
                  THEN /\ ops' = [ops EXCEPT !.badframes = zero]
                       /\ pc' = "crop"
                       /\ err' = err
                  ELSE IF InRange(badfile'.idx, ops.nframes)
                  THEN /\ ops' = [ops EXCEPT !.badframes = MarkBad(zero, badfile'.idx)]
                       /\ pc' = "crop"
                       /\ err' = err
                  ELSE /\ ops' = [ops EXCEPT !.badframes = zero]
                       /\ Raise("IndexError")
    /\ UNCHANGED <<opsKeys, files, call, raw, refImg, paths, gen, offsets,
                   events, tiffs, entry, runs>>

(* compute valid region *)

RECURSIVE MaxAbs(_, _)
MaxAbs(a, i) ==
    IF i = 0 THEN 0
    ELSE LET m == MaxAbs(a, i - 1) IN IF Abs(a[i]) > m THEN Abs(a[i]) ELSE m

\* compute_crop: a border as wide as the largest shift is excluded on each side
ComputeCrop(o) ==
    LET ymax == MaxAbs(o.hist.yoff, Len(o.hist.yoff))
        xmax == MaxAbs(o.hist.xoff, Len(o.hist.xoff))
    IN <<ymax, o.Ly - ymax, xmax, o.Lx - xmax>>

Crop ==
    /\ pc = "crop"
    /\ ops' = [ops EXCEPT !.crop = ComputeCrop(ops)]
    /\ events' = events \cup {"crop"}
    /\ pc' = "finish"
    /\ UNCHANGED <<opsKeys, files, badfile, call, raw, refImg, paths, gen, offsets, err,
                   tiffs, entry, runs>>

(* mark the record, save it, return *)

MarkCorrected(o, r) == IF ~r THEN [o EXCEPT !.bidi_corrected = TRUE] ELSE o

Finish ==
    /\ pc = "finish"
    /\ ops' = MarkCorrected(ops, raw)
    /\ events' = IF "ops_path" \in opsKeys THEN events \cup {"save"} ELSE events
    /\ runs' = runs + 1
    /\ pc' = "done"
    /\ UNCHANGED <<opsKeys, files, badfile, call, raw, refImg, paths, gen, offsets, err,
                   tiffs, entry>>

----------------------------------------------------------------------------

Next ==
    \/ Call
    \/ ResolveFrames
    \/ SelectStreams
    \/ Reference
    \/ PrepareMasks
    \/ RegisterBatch
    \/ MeanImage
    \/ ReplicateCall
    \/ ReplicateBatch
    \/ AltMeanImage
    \/ History
    \/ BadFrames
    \/ Crop
    \/ Finish

Spec == Init /\ [][Next]_vars

----------------------------------------------------------------------------
(* Properties *)

\* the run now executing (or just completed) is at least the second on this record
LaterRun == IF pc = "done" THEN runs >= 2 ELSE runs >= 1

StreamsSelected == paths.align # "none"

MeansStored == pc \in {"history", "badframes", "crop", "finish", "done"}

PriorOf(name, i) == IF "yoff" \in entry.keys THEN entry.hist[name][i] ELSE 0

PriorBlockOf(name, i, b) == IF "yoff1" \in entry.keys THEN entry.hist[name][i][b] ELSE 0

\* C1: once the frame count is resolved below 50 the run has ended in the
\* configuration error, and no reference construction, mask preparation, batch
\* registration, shift replication, crop computation or save has happened and
\* no preview was written.
C1_TooFewFramesFailsFirst ==
    (pc \notin {"idle", "resolve"} /\ ops.nframes < 50)
        => (pc = "error" /\ err = "config" /\ events = {} /\ tiffs = {})

C1_Witness ==
    /\ pc = "error"
    /\ err = "config"
    /\ ops.nframes = 49
    /\ "ops_path" \in opsKeys

\* C2 as stated: after a completed run every history array has nframes entries
\* and entry i is the shift this run measured for frame i, also when the record
\* held history arrays from an earlier run.
C2_HistoryIsThisRunsShift ==
    pc = "done" =>
        LET n == ops.nframes
            r == runs - 1
        IN /\ Len(ops.hist.yoff) = n /\ Len(ops.hist.xoff) = n /\ Len(ops.hist.corrXY) = n
           /\ \A i \in 1..n : /\ ops.hist.yoff[i] = FrameShift(r, i - 1, 1)
                              /\ ops.hist.xoff[i] = FrameShift(r, i - 1, 2)
                              /\ ops.hist.corrXY[i] = FrameShift(r, i - 1, 3)
           /\ ops.nonrigid =>
                /\ Len(ops.hist.yoff1) = n /\ Len(ops.hist.xoff1) = n /\ Len(ops.hist.corrXY1) = n
                /\ \A i \in 1..n : \A b \in 1..NumBlocks(ops) :
                     /\ ops.hist.yoff1[i][b] = BlockShift(r, i - 1, 1, b)
                     /\ ops.hist.xoff1[i][b] = BlockShift(r, i - 1, 2, b)
                     /\ ops.hist.corrXY1[i][b] = BlockShift(r, i - 1, 3, b)

\* C2 amended: after a completed run every history array has nframes entries
\* and entry i is the value the record held at entry i when the run was entered
\* (zero when it held no history) plus the shift this run measured for frame i.
C2_HistoryAccumulates ==
    pc = "done" =>
        LET n == ops.nframes
            r == runs - 1
        IN /\ Len(ops.hist.yoff) = n /\ Len(ops.hist.xoff) = n /\ Len(ops.hist.corrXY) = n
           /\ \A i \in 1..n : /\ ops.hist.yoff[i] = PriorOf("yoff", i) + FrameShift(r, i - 1, 1)
                              /\ ops.hist.xoff[i] = PriorOf("xoff", i) + FrameShift(r, i - 1, 2)
                              /\ ops.hist.corrXY[i] = PriorOf("corrXY", i) + FrameShift(r, i - 1, 3)
           /\ ops.nonrigid =>
                /\ Len(ops.hist.yoff1) = n /\ Len(ops.hist.xoff1) = n /\ Len(ops.hist.corrXY1) = n
                /\ \A i \in 1..n : \A b \in 1..NumBlocks(ops) :
                     /\ ops.hist.yoff1[i][b] = PriorBlockOf("yoff1", i, b) + BlockShift(r, i - 1, 1, b)
                     /\ ops.hist.xoff1[i][b] = PriorBlockOf("xoff1", i, b) + BlockShift(r, i - 1, 2, b)
                     /\ ops.hist.corrXY1[i][b] =
                            PriorBlockOf("corrXY1", i, b) + BlockShift(r, i - 1, 3, b)

C2_Witness ==
    /\ pc = "done"
    /\ runs = 2
    /\ ops.nonrigid
    /\ "yoff" \in entry.keys
    /\ entry.hist.yoff[1] # 0
    /\ entry.hist.yoff1[1][1] # 0

\* C3: the mean image stored for the alignment channel, and for the alternate
\* channel when nchannels > 1, equals that channel's sum image divided by the
\* number of frames accumulated into it.
C3_MeanIsSumOverFrames ==
    MeansStored =>
        /\ FracEq(ops.means[MeanImgKey(ops)], <<gen.sum_img, gen.nfr>>)
        /\ ops.nchannels > 1 =>
             FracEq(ops.means[AltMeanImgKey(ops)], <<gen.altSum, gen.altCnt>>)

\* C4: after a completed run the bad-frame mask has nframes entries, is
\* all-false when no data path is configured or no file is found, marks exactly
\* the listed 0-based indices when the file is found, and every frame was
\* registered whatever the mask holds.
C4_BadFrameMask ==
    pc = "done" =>
        LET n == ops.nframes
            found == "data_path" \in opsKeys /\ badfile.exists
            listed == {badfile.idx[j] : j \in 1..Len(badfile.idx)}
        IN /\ Len(ops.badframes) = n
           /\ ~found => \A i \in 1..n : ~ops.badframes[i]
           /\ found => \A i \in 0..(n - 1) : ops.badframes[i + 1] <=> i \in listed
           /\ gen.nfr = n
           /\ Len(offsets.yoff) = n

C4_Witness ==
    /\ pc = "done"
    /\ "data_path" \in opsKeys
    /\ badfile.exists
    /\ ops.badframes[1] /\ ~ops.badframes[2] /\ ops.badframes[4]
    /\ ops.badframes[ops.nframes]

\* C5: the raw stream is aligned, or used to build the reference, only if the
\* caller's raw argument is true, keep_movie_raw is set and raw_file is a file.
C5_RawOnlyWhenRequested ==
    (StreamsSelected /\ (paths.align = "raw" \/ paths.ref = "raw"))
        => (call.raw /\ ops.keep_movie_raw /\ PathIsFile(files))

\* C6: when the caller supplies a reference image no reference is built, the
\* supplied image becomes the record's reference, the record's bidiphase stays
\* as it was at entry, and the run does not fail for want of a bidiphase.
C6_SuppliedReferenceSuffices ==
    (call.refImg /\ pc \notin {"idle"}) =>
        /\ "reference" \notin events
        /\ pc \in {"masks", "register", "mean", "shiftcall", "replicate", "altmean",
                   "history", "badframes", "crop", "finish", "done"} => ops.refImg = "user"
        /\ ("bidiphase" \in opsKeys) <=> ("bidiphase" \in entry.keys)
        /\ ops.bidiphase = entry.bidiphase
        /\ ~(pc = "error" /\ err = "KeyError")

\* C7: a run that has failed has saved no record and left no preview file, and
\* the record is saved only by the last step of a run.
C7_FailedRunLeavesNothing ==
    /\ pc = "error" => ("save" \notin events /\ tiffs = {})
    /\ "save" \in events => pc = "done"

\* C8: every run after a completed run on the same record aligns the
\* registered stream.
C8_LaterRunsAlignRegistered ==
    (LaterRun /\ StreamsSelected) => paths.align = "reg"

\* C9: without an explicit cap the resolved nframes is the whole number of
\* frames in the stream selected for alignment.
C9_FrameCountFromAlignedStream ==
    (ops.frames_include = -1 /\ StreamsSelected)
        => ops.nframes = StreamFrames(files, ops, paths.align)

\* C10: after a completed run the mean images are stored under 'meanImg' (the
\* functional channel) and, with two channels, 'meanImg_chan2' (the other
\* channel), and under no other key.
C10_MeanImageKeys ==
    pc = "done" =>
        LET alignMean == <<gen.sum_img, ops.nframes>>
            altMean == AltMean(gen.mean_img, gen.k)
            functionalAligned == ops.nchannels = 1 \/ ops.functional_chan = ops.align_by_chan
        IN /\ DOMAIN ops.means = IF ops.nchannels > 1 THEN {"meanImg", "meanImg_chan2"}
                                                      ELSE {"meanImg"}
           /\ ops.means["meanImg"] = IF functionalAligned THEN alignMean ELSE altMean
           /\ ops.nchannels > 1 =>
                ops.means["meanImg_chan2"] = IF functionalAligned THEN altMean ELSE alignMean

====
